---- MODULE Spec2Model ----
(***************************************************************************)
(* A model of facebook/build_archive.py: the loader of a Facebook data     *)
(* export (posts and photo albums), the copier of its media files, and     *)
(* main(), which writes the pages of the static site.                      *)
(*                                                                         *)
(* Text is a sequence of code points.  A JSON object is a function from    *)
(* its keys to its values (a record whose DOMAIN holds the keys that are   *)
(* present), a JSON array is a sequence.                                   *)
(***************************************************************************)
EXTENDS Integers, Sequences, FiniteSets, TLC

\* ------------------------------------------------------------------------
\* Notation for text
\* ------------------------------------------------------------------------

\* The printable ASCII characters, code points 32 to 126, in order (the
\* grave accent, code point 96, is spelled out).
Printable ==
  << " ", "!", "\"", "#", "$", "%", "&", "'", "(", ")", "*", "+", ",", "-",
     ".", "/", "0", "1", "2", "3", "4", "5", "6", "7", "8", "9", ":", ";",
     "<", "=", ">", "?", "@", "A", "B", "C", "D", "E", "F", "G", "H", "I",
     "J", "K", "L", "M", "N", "O", "P", "Q", "R", "S", "T", "U", "V", "W",
     "X", "Y", "Z", "[", "\\", "]", "^", "_", "grave", "a", "b", "c", "d", "e",
     "f", "g", "h", "i", "j", "k", "l", "m", "n", "o", "p", "q", "r", "s",
     "t", "u", "v", "w", "x", "y", "z", "{", "|", "}", "~" >>

\* The code point of a printable ASCII character.
Ord(c) == 31 + (CHOOSE i \in DOMAIN Printable : Printable[i] = c)

\* The text written as a sequence of characters.
Str(s) == [i \in DOMAIN s |-> Ord(s[i])]

\* Python's None where a text is expected; no text holds a negative code.
None == << -1 >>

\* Python's None where a parsed JSON value is expected (load_json's failure),
\* and a parsed value.
JsonNone == [none |-> TRUE]
JsonValue(v) == [none |-> FALSE, value |-> v]

\* dict.get(key, default)
Get(d, key, default) == IF key \in DOMAIN d THEN d[key] ELSE default

\* The empty JSON object and the empty list.
EmptyDict == [k \in {} |-> None]

\* ------------------------------------------------------------------------
\* decode_facebook_text
\* ------------------------------------------------------------------------

\* The result of a failed bytes.decode('utf-8').
DecodeError == << -2 >>

IsCont(b) == b >= 128 /\ b <= 191

\* The length of the UTF-8 sequence that starts b, 0 if b starts with none.
Utf8Len(b) ==
  IF b[1] < 128 THEN 1
  ELSE IF b[1] >= 194 /\ b[1] <= 223
    THEN IF Len(b) >= 2 /\ IsCont(b[2]) THEN 2 ELSE 0
  ELSE IF b[1] >= 224 /\ b[1] <= 239
    THEN IF /\ Len(b) >= 3 /\ IsCont(b[2]) /\ IsCont(b[3])
            /\ (b[1] = 224 => b[2] >= 160)
            /\ (b[1] = 237 => b[2] <= 159)
         THEN 3 ELSE 0
  ELSE IF b[1] >= 240 /\ b[1] <= 244
    THEN IF /\ Len(b) >= 4 /\ IsCont(b[2]) /\ IsCont(b[3]) /\ IsCont(b[4])
            /\ (b[1] = 240 => b[2] >= 144)
            /\ (b[1] = 244 => b[2] <= 143)
         THEN 4 ELSE 0
  ELSE 0

\* The code point of the UTF-8 sequence of length n that starts b.
Utf8Point(b, n) ==
  CASE n = 1 -> b[1]
    [] n = 2 -> (b[1] - 192) * 64 + (b[2] - 128)
    [] n = 3 -> (b[1] - 224) * 4096 + (b[2] - 128) * 64 + (b[3] - 128)
    [] n = 4 -> (b[1] - 240) * 262144 + (b[2] - 128) * 4096
                  + (b[3] - 128) * 64 + (b[4] - 128)

\* bytes.decode('utf-8'): the text, or DecodeError.
RECURSIVE Utf8Decode(_)
Utf8Decode(b) ==
  IF b = << >> THEN << >>
  ELSE LET n == Utf8Len(b) IN
       IF n = 0 THEN DecodeError
       ELSE LET rest == Utf8Decode(SubSeq(b, n + 1, Len(b))) IN
            IF rest = DecodeError THEN DecodeError
            ELSE << Utf8Point(b, n) >> \o rest

\* text.encode('latin-1') succeeds iff every code point is below 256, and
\* then gives one byte per character, of the same value.
decode_facebook_text(text) ==
  IF text = None THEN << >>
  ELSE IF \E i \in DOMAIN text : text[i] > 255 THEN text
  ELSE LET decoded == Utf8Decode(text) IN
       IF decoded = DecodeError THEN text ELSE decoded

\* ------------------------------------------------------------------------
\* get_media_path
\* ------------------------------------------------------------------------

Slash == Ord("/")
Dot == Ord(".")

\* The components of a path: the runs of characters between slashes.
RECURSIVE SplitPath(_, _)
SplitPath(s, cur) ==
  IF s = << >> THEN << cur >>
  ELSE IF Head(s) = Slash THEN << cur >> \o SplitPath(Tail(s), << >>)
  ELSE SplitPath(Tail(s), Append(cur, Head(s)))

\* Path(uri).name: pathlib drops the empty and the "." components, the name
\* is the last component left, the empty text when none is left.
PathName(uri) ==
  LET parts == SelectSeq(SplitPath(uri, << >>),
                         LAMBDA p : p # << >> /\ p # << Dot >>) IN
  IF parts = << >> THEN << >> ELSE parts[Len(parts)]

MediaPrefix == Str(<< "m", "e", "d", "i", "a", "/" >>)

get_media_path(uri) ==
  IF uri = None \/ uri = << >> THEN None
  ELSE MediaPrefix \o PathName(uri)

\* ------------------------------------------------------------------------
\* Files and load_json
\* ------------------------------------------------------------------------

\* A file of the export: absent, present with content json.load rejects, or
\* present with the JSON value it parses to.
FileMissing == [state |-> "missing"]
FileUnparseable == [state |-> "unparseable"]
JsonFile(v) == [state |-> "json", json |-> v]

\* load_json: the parsed value, None when open or json.load raises.  The
\* except clause prints a diagnostic; when that print raises, the exception
\* leaves load_json (LoadPostsFails, LoadAlbumsFails).
load_json(file) ==
  IF file.state = "json" THEN JsonValue(file.json) ELSE JsonNone

\* Python's "not data" for the result of load_json: None, {} and [].
NotData(data) == data.none \/ DOMAIN data.value = {}

\* ------------------------------------------------------------------------
\* load_posts
\* ------------------------------------------------------------------------

\* The first entry of item['data'] that has a 'post' key gives the text.
RECURSIVE PostText(_)
PostText(data) ==
  IF data = << >> THEN << >>
  ELSE IF "post" \in DOMAIN Head(data) THEN decode_facebook_text(Head(data).post)
  ELSE PostText(Tail(data))

\* if 'media' in d: post['media'].append({...})
AppendMedia(post, d) ==
  IF "media" \in DOMAIN d
  THEN [post EXCEPT !.media = Append(@,
          [uri |-> Get(d.media, "uri", None),
           description |-> decode_facebook_text(Get(d.media, "description", << >>))])]
  ELSE post

\* A slip of SetExternalUrl: the first external_context is kept.
SetExternalUrlFirst(post, d) ==
  IF "external_context" \in DOMAIN d /\ post.external_url = None
  THEN [post EXCEPT !.external_url = Get(d.external_context, "url", None)]
  ELSE post

\* if 'external_context' in d: post['external_url'] = d[...].get('url')
SetExternalUrl(post, d) ==
  IF "external_context" \in DOMAIN d
  THEN [post EXCEPT !.external_url = Get(d.external_context, "url", None)]
  ELSE post

\* for d in attachment.get('data', [])
RECURSIVE ScanData(_, _)
ScanData(post, data) ==
  IF data = << >> THEN post
  ELSE ScanData(SetExternalUrl(AppendMedia(post, Head(data)), Head(data)),
                Tail(data))

\* for attachment in item.get('attachments', [])
RECURSIVE ScanAttachments(_, _)
ScanAttachments(post, attachments) ==
  IF attachments = << >> THEN post
  ELSE ScanAttachments(ScanData(post, Get(Head(attachments), "data", << >>)),
                       Tail(attachments))

\* The post built from one item of the posts file.
MakePost(item) ==
  ScanAttachments(
    [timestamp |-> Get(item, "timestamp", 0),
     title |-> decode_facebook_text(Get(item, "title", << >>)),
     text |-> PostText(Get(item, "data", << >>)),
     media |-> << >>,
     external_url |-> None],
    Get(item, "attachments", << >>))

\* A slip of InsertPost: ascending order (reverse=True left out).
InsertPostAscending(sorted, post) ==
  LET k == Cardinality({i \in DOMAIN sorted : sorted[i].timestamp <= post.timestamp})
  IN SubSeq(sorted, 1, k) \o << post >> \o SubSeq(sorted, k + 1, Len(sorted))

\* One step of the stable descending sort: post goes behind every post
\* already placed whose timestamp is not smaller.
InsertPost(sorted, post) ==
  LET k == Cardinality({i \in DOMAIN sorted : sorted[i].timestamp >= post.timestamp})
  IN SubSeq(sorted, 1, k) \o << post >> \o SubSeq(sorted, k + 1, Len(sorted))

\* posts.sort(key=lambda x: x['timestamp'], reverse=True)
RECURSIVE SortPosts(_, _)
SortPosts(sorted, rest) ==
  IF rest = << >> THEN sorted
  ELSE SortPosts(InsertPost(sorted, Head(rest)), Tail(rest))

load_posts(posts_file) ==
  LET data == load_json(posts_file) IN
  IF NotData(data) THEN << >>
  ELSE SortPosts(<< >>, [i \in DOMAIN data.value |-> MakePost(data.value[i])])

\* ------------------------------------------------------------------------
\* load_albums
\* ------------------------------------------------------------------------

\* a < b for texts, as Python compares str: by code point, a proper prefix
\* first.
TextLess(a, b) ==
  \E i \in 1..(Len(b)) :
    /\ \A j \in 1..(i - 1) : j <= Len(a) /\ a[j] = b[j]
    /\ (i > Len(a) \/ (i <= Len(a) /\ a[i] < b[i]))

\* str.endswith
EndsWith(s, suffix) ==
  Len(s) >= Len(suffix) /\ SubSeq(s, Len(s) - Len(suffix) + 1, Len(s)) = suffix

JsonSuffix == Str(<< ".", "j", "s", "o", "n" >>)

\* sorted(album_dir.glob("*.json")): the names of the directory that end in
\* .json, in increasing order.
RECURSIVE SortNames(_)
SortNames(names) ==
  IF names = {} THEN << >>
  ELSE LET least == CHOOSE n \in names : \A m \in names : m = n \/ TextLess(n, m)
       IN << least >> \o SortNames(names \ {least})

GlobJson(album_dir) ==
  SortNames({n \in DOMAIN album_dir.files : EndsWith(n, JsonSuffix)})

UntitledAlbum ==
  Str(<< "U", "n", "t", "i", "t", "l", "e", "d", " ", "A", "l", "b", "u", "m" >>)

\* The photos of an album file, in the order of its 'photos' array.
AlbumPhotos(data) ==
  LET photos == Get(data, "photos", << >>) IN
  [i \in DOMAIN photos |->
    [uri |-> Get(photos[i], "uri", None),
     description |-> decode_facebook_text(Get(photos[i], "description", << >>)),
     timestamp |-> Get(photos[i], "creation_timestamp", 0)]]

\* A slip of AlbumCover: the last photo stands in for a missing cover.
AlbumCoverLast(data, photos) ==
  IF "cover_photo" \in DOMAIN data /\ DOMAIN data.cover_photo # {}
  THEN Get(data.cover_photo, "uri", None)
  ELSE IF photos # << >> THEN photos[Len(photos)].uri
  ELSE None

\* if data.get('cover_photo'): ... elif album['photos']: ...
AlbumCover(data, photos) ==
  IF "cover_photo" \in DOMAIN data /\ DOMAIN data.cover_photo # {}
  THEN Get(data.cover_photo, "uri", None)
  ELSE IF photos # << >> THEN photos[1].uri
  ELSE None

\* The album built from one album file.
MakeAlbum(data) ==
  LET photos == AlbumPhotos(data) IN
  [name |-> decode_facebook_text(Get(data, "name", UntitledAlbum)),
   description |-> decode_facebook_text(Get(data, "description", << >>)),
   photos |-> photos,
   cover |-> AlbumCover(data, photos)]

\* A slip of KeepAlbum: every album is kept.
KeepAlbumAlways(album) == TRUE

\* if album['photos']: albums.append(album)
KeepAlbum(album) == album.photos # << >>

\* A slip of LoadAlbumFiles: break for continue, the loop ends at the first
\* file that gives no data.
RECURSIVE LoadAlbumFilesStop(_, _, _)
LoadAlbumFilesStop(album_dir, names, albums) ==
  IF names = << >> THEN albums
  ELSE LET data == load_json(album_dir.files[Head(names)])
           album == MakeAlbum(data.value)
       IN IF NotData(data) THEN albums
          ELSE LoadAlbumFilesStop(album_dir, Tail(names),
                 IF KeepAlbum(album) THEN Append(albums, album) ELSE albums)

\* The body of the loop over the album files, for the files named by names.
RECURSIVE LoadAlbumFiles(_, _, _)
LoadAlbumFiles(album_dir, names, albums) ==
  IF names = << >> THEN albums
  ELSE LET data == load_json(album_dir.files[Head(names)])
           album == MakeAlbum(data.value)
       IN LoadAlbumFiles(album_dir, Tail(names),
            IF NotData(data) THEN albums
            ELSE IF KeepAlbum(album) THEN Append(albums, album)
            ELSE albums)

load_albums(album_dir) ==
  IF ~album_dir.exists THEN << >>
  ELSE LoadAlbumFiles(album_dir, GlobJson(album_dir), << >>)

\* ------------------------------------------------------------------------
\* The page templates
\*
\* A page is the record of the values its template interpolates; the fixed
\* markup, the style sheet and the body text of a post are left out.
\* ------------------------------------------------------------------------

\* html.escape(s), quote=True
EscapeChar(c) ==
  CASE c = Ord("&") -> Str(<< "&", "a", "m", "p", ";" >>)
    [] c = Ord("<") -> Str(<< "&", "l", "t", ";" >>)
    [] c = Ord(">") -> Str(<< "&", "g", "t", ";" >>)
    [] c = Ord("\"") -> Str(<< "&", "q", "u", "o", "t", ";" >>)
    [] c = Ord("'") -> Str(<< "&", "#", "x", "2", "7", ";" >>)
    [] OTHER -> << c >>

RECURSIVE HtmlEscape(_)
HtmlEscape(s) ==
  IF s = << >> THEN << >> ELSE EscapeChar(Head(s)) \o HtmlEscape(Tail(s))

\* format_timestamp: nothing for a timestamp of 0, else the local date and
\* time to the minute (the seconds are not shown).
format_timestamp(ts) ==
  IF ts = 0 THEN [shown |-> FALSE, minute |-> 0]
  ELSE [shown |-> TRUE, minute |-> ts \div 60]

\* The <img> elements of a post or an album: one for every entry whose uri
\* resolves to a path, in order.
RECURSIVE MediaHtml(_)
MediaHtml(media) ==
  IF media = << >> THEN << >>
  ELSE LET path == get_media_path(Head(media).uri) IN
       (IF path # None
        THEN << [src |-> path, alt |-> HtmlEscape(Head(media).description)] >>
        ELSE << >>) \o MediaHtml(Tail(media))

generate_post_html(post, profile_pic_path) ==
  [avatar |-> profile_pic_path,
   date |-> format_timestamp(post.timestamp),
   has_text |-> post.text # << >>,
   media |-> MediaHtml(post.media),
   link |-> IF post.external_url = None \/ post.external_url = << >>
            THEN None ELSE HtmlEscape(post.external_url)]

generate_index_page(posts_, profile_pic_path, cover_photo_path) ==
  [kind |-> "index",
   cover |-> cover_photo_path,
   profile |-> profile_pic_path,
   posts |-> [n \in DOMAIN posts_ |-> generate_post_html(posts_[n], profile_pic_path)]]

\* str(n) for n >= 0
RECURSIVE Decimal(_)
Decimal(n) ==
  IF n < 10 THEN << Ord("0") + n >>
  ELSE Decimal(n \div 10) \o << Ord("0") + (n % 10) >>

\* f"album-{i}.html"
AlbumPageName(n) ==
  Str(<< "a", "l", "b", "u", "m", "-" >>) \o Decimal(n)
    \o Str(<< ".", "h", "t", "m", "l" >>)

PlaceholderPath ==
  Str(<< "m", "e", "d", "i", "a", "/", "p", "l", "a", "c", "e", "h", "o", "l",
         "d", "e", "r", ".", "j", "p", "g" >>)

\* A slip of AlbumCard: the cards are numbered from 1.
AlbumCardFromOne(album, n) ==
  [href |-> AlbumPageName(n + 1),
   cover |-> IF album.cover = None \/ album.cover = << >>
             THEN PlaceholderPath ELSE get_media_path(album.cover),
   name |-> HtmlEscape(album.name),
   count |-> Len(album.photos)]

\* The card of the album at position n (from 0) of generate_photos_page.
AlbumCard(album, n) ==
  [href |-> AlbumPageName(n),
   cover |-> IF album.cover = None \/ album.cover = << >>
             THEN PlaceholderPath ELSE get_media_path(album.cover),
   name |-> HtmlEscape(album.name),
   count |-> Len(album.photos)]

generate_photos_page(albums_, profile_pic_path) ==
  [kind |-> "photos",
   cards |-> [n \in DOMAIN albums_ |-> AlbumCard(albums_[n], n - 1)]]

generate_album_page(album, index, profile_pic_path) ==
  [kind |-> "album",
   name |-> HtmlEscape(album.name),
   count |-> Len(album.photos),
   photos |-> MediaHtml(album.photos)]

generate_about_page(profile_pic_path) ==
  [kind |-> "about", profile |-> profile_pic_path]

\* What a write that fails part-way leaves of a page.
TruncatedPage == [kind |-> "truncated"]

IndexName == Str(<< "i", "n", "d", "e", "x", ".", "h", "t", "m", "l" >>)
PhotosName == Str(<< "p", "h", "o", "t", "o", "s", ".", "h", "t", "m", "l" >>)
AboutName == Str(<< "a", "b", "o", "u", "t", ".", "h", "t", "m", "l" >>)

\* ------------------------------------------------------------------------
\* The choice of the profile picture and of the cover photo in main
\* ------------------------------------------------------------------------

DefaultProfilePic ==
  Str(<< "m", "e", "d", "i", "a", "/", "1", "8", "6", "6", "8", "3", "0", "3",
         "8", "0", "1", "6", "6", "7", "7", ".", "j", "p", "g" >>)
DefaultCoverPhoto ==
  Str(<< "m", "e", "d", "i", "a", "/", "4", "5", "9", "0", "8", "9", "6", "2",
         "9", "5", "6", "4", "8", "2", "2", ".", "j", "p", "g" >>)

ProfileWord == Str(<< "p", "r", "o", "f", "i", "l", "e" >>)
CoverWord == Str(<< "c", "o", "v", "e", "r" >>)

\* str.lower() on the code points below 256: A-Z and the capital letters of
\* Latin-1 move up by 32.
LowerChar(c) ==
  IF \/ (c >= 65 /\ c <= 90)
     \/ (c >= 192 /\ c <= 222 /\ c # 215)
  THEN c + 32 ELSE c

Lower(s) == [n \in DOMAIN s |-> LowerChar(s[n])]

\* needle in s
Contains(s, needle) ==
  \E k \in 0..(Len(s) - Len(needle)) : SubSeq(s, k + 1, k + Len(needle)) = needle

\* A slip of AlbumMatches: the name is compared as it is written.
AlbumMatchesExactCase(album, word) ==
  Contains(album.name, word) /\ album.photos # << >>

\* 'profile' in album['name'].lower() and album['photos']
AlbumMatches(album, word) ==
  Contains(Lower(album.name), word) /\ album.photos # << >>

\* A slip of PickPath: no break, the last matching album wins.
RECURSIVE PickPathLast(_, _, _)
PickPathLast(albums_, word, default) ==
  IF albums_ = << >> THEN default
  ELSE IF AlbumMatches(Head(albums_), word)
    THEN PickPathLast(Tail(albums_), word, get_media_path(Head(albums_).photos[1].uri))
  ELSE PickPathLast(Tail(albums_), word, default)

\* for album in albums: if <matches>: path = get_media_path(...); break
RECURSIVE PickPath(_, _, _)
PickPath(albums_, word, default) ==
  IF albums_ = << >> THEN default
  ELSE IF AlbumMatches(Head(albums_), word)
    THEN get_media_path(Head(albums_).photos[1].uri)
  ELSE PickPath(Tail(albums_), word, default)

\* ------------------------------------------------------------------------
\* The exports the model is run on
\* ------------------------------------------------------------------------

\* The longest posts file, the longest walk of the media directory and the
\* largest number of runs of main.
MaxPosts == 3
MaxWalk == 3
MaxRuns == 2

SeqsUpTo(S, n) == UNION {[1..k -> S] : k \in 0..n}

Url1 == Str(<< "h", "t", "t", "p", ":", "/", "/", "a", "?", "x", "&", "y" >>)
Url2 == Str(<< "h", "t", "t", "p", ":", "/", "/", "b" >>)
Uri1 == Str(<< "p", "/", "m", "/", "1", ".", "j", "p", "g" >>)
Uri2 == Str(<< "p", "/", "n", "/", "2", ".", "j", "p", "g" >>)
Uri3 == Str(<< "p", "/", "n", "/", "1", ".", "j", "p", "g" >>)
UriDir == Str(<< "p", "/", "m", "/" >>)

\* The items a posts file is made of: timestamps above, at and below 0 and
\* absent, with a tie; attachments with several media and several
\* external_context entries, in one attachment and across attachments.
RawPosts ==
  { [timestamp |-> 2,
     title |-> Str(<< "T" >>),
     data |-> << [update_timestamp |-> 2], [post |-> << 195, 169 >>],
                 [post |-> Str(<< "x" >>)] >>,
     attachments |-> << [data |-> << [media |-> [uri |-> Uri1]],
                                     [external_context |-> [url |-> Url1]],
                                     [media |-> [uri |-> Uri2, description |-> Str(<< "<" >>)]],
                                     [external_context |-> [url |-> Url2]] >>] >>],
    [timestamp |-> 2],
    [data |-> << [post |-> << 233 >>] >>,
     attachments |-> << [data |-> << [external_context |-> [url |-> Url2]] >>],
                        [other |-> 0],
                        [data |-> << [media |-> [uri |-> Uri3],
                                      external_context |-> [url |-> Url1]] >>] >>],
    [timestamp |-> 0,
     attachments |-> << [data |-> << [external_context |-> [url |-> Url1]],
                                     [media |-> [description |-> Str(<< "d" >>)]],
                                     [external_context |-> [name |-> Str(<< "n" >>)]] >>] >>],
    [timestamp |-> -1,
     attachments |-> << [data |-> << [media |-> [uri |-> UriDir]] >>] >>],
    [timestamp |-> 61,
     attachments |-> << [data |-> << [place |-> 0] >>] >>] }

PostsFiles ==
  {FileMissing, FileUnparseable} \cup {JsonFile(v) : v \in SeqsUpTo(RawPosts, MaxPosts)}

TwoPosts == JsonFile(<< [timestamp |-> 0], [timestamp |-> 61,
              attachments |-> << [data |-> << [media |-> [uri |-> Uri1]] >>] >>] >>)

\* The names of the files of the album directory. As texts, 10.json comes
\* before 2.json, and 2.json before 2a.json.
AlbumName10 == Str(<< "1", "0", ".", "j", "s", "o", "n" >>)
AlbumName2 == Str(<< "2", ".", "j", "s", "o", "n" >>)
AlbumName2a == Str(<< "2", "a", ".", "j", "s", "o", "n" >>)
NotesName == Str(<< "n", "o", "t", "e", "s", ".", "t", "x", "t" >>)
AlbumFileNames == {AlbumName10, AlbumName2, AlbumName2a}

ProfilePictures ==
  Str(<< "P", "r", "o", "f", "i", "l", "e", " ", "P", "i", "c", "t", "u", "r", "e", "s" >>)
\* "COVER " and the two bytes of a mis-encoded capital E with acute accent
CoverPhotos == Str(<< "C", "O", "V", "E", "R", " " >>) \o << 195, 137 >>
ProfileAndCover ==
  Str(<< "M", "y", " ", "p", "r", "o", "f", "i", "l", "e", "/", "c", "o", "v", "e", "r" >>)

UriP1 == Str(<< "a", "/", "p", "1", ".", "j", "p", "g" >>)
UriP2 == Str(<< "a", "/", "p", "2", ".", "j", "p", "g" >>)
UriC1 == Str(<< "b", "/", "c", "1", ".", "j", "p", "g" >>)
UriC2 == Str(<< "c", "2", ".", "p", "n", "g" >>)
UriB2 == Str(<< "b", "2", ".", "j", "p", "g" >>)
UriT1 == Str(<< "t", "/", ".", "/", "t", "1", ".", "g", "i", "f" >>)

\* The album files: one that does not parse, an empty object, an album
\* named after the profile with no photos, and albums with photos, with and
\* without a cover_photo, a name, and a uri on the first photo.
AlbumFiles ==
  { FileUnparseable,
    JsonFile(EmptyDict),
    JsonFile([name |-> ProfilePictures, photos |-> << >>]),
    JsonFile([name |-> ProfilePictures,
              photos |-> << [uri |-> UriP1, creation_timestamp |-> 5],
                            [uri |-> UriP2] >>]),
    JsonFile([name |-> CoverPhotos,
              cover_photo |-> [uri |-> UriC2],
              photos |-> << [uri |-> UriC1, description |-> Str(<< "'" >>)] >>]),
    JsonFile([name |-> ProfileAndCover,
              cover_photo |-> EmptyDict,
              photos |-> << [description |-> Str(<< "d" >>)], [uri |-> UriB2] >>]),
    JsonFile([photos |-> << [uri |-> UriT1], [uri |-> UriP1] >>]) }

AlbumDirMissing == [exists |-> FALSE, files |-> << >>]
AlbumDir(files) == [exists |-> TRUE, files |-> files]

AlbumDirs ==
  {AlbumDirMissing} \cup
  {AlbumDir(f) : f \in UNION {[D -> AlbumFiles] : D \in SUBSET AlbumFileNames}}

\* The files below posts/media, in the order os.walk visits them: the
\* directory, the file name and the content.
File1Jpg == Str(<< "1", ".", "j", "p", "g" >>)
File2JPG == Str(<< "2", ".", "J", "P", "G" >>)
FileVMp4 == Str(<< "v", ".", "m", "p", "4" >>)

MediaEntries ==
  { [root |-> "a", file |-> File1Jpg, data |-> 1],
    [root |-> "b", file |-> File1Jpg, data |-> 2],
    [root |-> "c", file |-> File1Jpg, data |-> 3],
    [root |-> "b", file |-> File2JPG, data |-> 4],
    [root |-> "a", file |-> FileVMp4, data |-> 5] }

\* os.walk lists a file once, and the files of one directory together.
IsWalk(w) ==
  /\ \A m, n \in DOMAIN w : m # n => w[m] # w[n]
  /\ \A l, m, n \in DOMAIN w :
       l < m /\ m < n /\ w[l].root = w[n].root => w[m].root = w[l].root

MediaSourceMissing == [exists |-> FALSE, walk |-> << >>]
MediaSource(w) == [exists |-> TRUE, walk |-> w]

MediaSources ==
  {MediaSourceMissing} \cup
  {MediaSource(w) : w \in {v \in SeqsUpTo(MediaEntries, MaxWalk) : IsWalk(v)}}

TwoDirsWalk ==
  MediaSource(<< [root |-> "a", file |-> File1Jpg, data |-> 1],
                 [root |-> "b", file |-> File1Jpg, data |-> 2],
                 [root |-> "b", file |-> File2JPG, data |-> 4] >>)

\* The output media directory before the first run: absent, or left by an
\* earlier build.
NoMediaOutput == [exists |-> FALSE, files |-> << >>]
OldMediaOutput == [exists |-> TRUE, files |-> (File1Jpg :> 9)]

\* ------------------------------------------------------------------------
\* copy_media_files
\* ------------------------------------------------------------------------

AllowedSuffixes ==
  { Str(<< ".", "j", "p", "g" >>), Str(<< ".", "j", "p", "e", "g" >>),
    Str(<< ".", "p", "n", "g" >>), Str(<< ".", "g", "i", "f" >>),
    Str(<< ".", "m", "p", "4" >>), Str(<< ".", "w", "e", "b", "p" >>) }

\* A slip of ShouldCopy: a file already in the output is copied again.
ShouldCopyAlways(file, output) ==
  \E suffix \in AllowedSuffixes : EndsWith(file, suffix)

\* if file.endswith((...)): ... if not dst.exists():
ShouldCopy(file, output) ==
  /\ \E suffix \in AllowedSuffixes : EndsWith(file, suffix)
  /\ file \notin DOMAIN output.files

\* The directory with the file name holding content.
Put(files, name, content) ==
  [n \in DOMAIN files \cup {name} |-> IF n = name THEN content ELSE files[n]]

\* ------------------------------------------------------------------------
\* main
\* ------------------------------------------------------------------------

VARIABLES
  posts_file,        \* archive/.../posts/profile_posts_1.json
  album_dir,         \* archive/.../posts/album
  media_source,      \* archive/.../posts/media
  media_output,      \* ./media
  docs,              \* the .html files of the output directory
  pc,                \* where main is
  k,                 \* the position of copy_media_files in the walk
  posts,             \* main's posts
  albums,            \* main's albums
  profile_pic_path,
  cover_photo_path,
  i,                 \* the index of the loop over the album pages
  written,           \* the documents this run has written, in order
  copied,            \* the media files this run has copied, in order
  runs,              \* the number of runs started
  prev_docs,         \* docs when this run started
  prev_media,        \* the files of media_output when this run started
  same_input,        \* this run reads the input the run before it read
  input_changed,     \* the input was changed since the last run started
  prev_done          \* the run before this one completed

inputs == << posts_file, album_dir, media_source >>
locals == << k, posts, albums, profile_pic_path, cover_photo_path, i >>
history == << runs, prev_docs, prev_media, same_input, input_changed,
             prev_done >>
vars == << inputs, media_output, docs, pc, locals, written, copied, history >>

\* The state in which main is called for the first time.
InitRun ==
  /\ docs = << >>
  /\ pc = "start"
  /\ k = 0
  /\ posts = << >>
  /\ albums = << >>
  /\ profile_pic_path = None
  /\ cover_photo_path = None
  /\ i = 0
  /\ written = << >>
  /\ copied = << >>
  /\ runs = 1
  /\ prev_docs = << >>
  /\ prev_media = media_output.files
  /\ same_input = FALSE
  /\ input_changed = FALSE
  /\ prev_done = FALSE

\* A slip of BeginCopy: the run starts by emptying the output directory of
\* its documents.
BeginCopyClean ==
  /\ pc = "start"
  /\ media_output' = [media_output EXCEPT !.exists = TRUE]
  /\ docs' = << >>
  /\ k' = 1
  /\ pc' = IF media_source.exists /\ media_source.walk # << >>
           THEN "copy" ELSE "load_posts"
  /\ UNCHANGED << inputs, posts, albums, profile_pic_path,
                  cover_photo_path, i, written, copied, history >>

\* MEDIA_OUTPUT.mkdir(exist_ok=True); if media_source.exists(): os.walk
BeginCopy ==
  /\ pc = "start"
  /\ media_output' = [media_output EXCEPT !.exists = TRUE]
  /\ k' = 1
  /\ pc' = IF media_source.exists /\ media_source.walk # << >>
           THEN "copy" ELSE "load_posts"
  /\ UNCHANGED << inputs, docs, posts, albums, profile_pic_path,
                  cover_photo_path, i, written, copied, history >>

\* An exception ends the run before the walk: MEDIA_OUTPUT.mkdir raises (the
\* output directory cannot be written, or ./media is there and is no
\* directory) and ./media is as it was, or media_source.exists() raises (the
\* export cannot be searched) after mkdir has made the directory.
BeginCopyFails ==
  /\ pc = "start"
  /\ \/ media_output' = media_output
     \/ media_output' = [media_output EXCEPT !.exists = TRUE]
  /\ pc' = "failed"
  /\ UNCHANGED << inputs, docs, locals, written, copied, history >>

AfterFile == IF k < Len(media_source.walk) THEN "copy" ELSE "load_posts"

\* shutil.copy2(src, dst) for a file that is to be copied
CopyFile ==
  /\ pc = "copy"
  /\ LET entry == media_source.walk[k] IN
       /\ ShouldCopy(entry.file, media_output)
       /\ media_output' = [media_output EXCEPT
                             !.files = Put(@, entry.file, entry.data)]
       /\ copied' = Append(copied, entry.file)
  /\ k' = k + 1
  /\ pc' = AfterFile
  /\ UNCHANGED << inputs, docs, posts, albums, profile_pic_path,
                  cover_photo_path, i, written, history >>

\* The content of a destination file that shutil.copy2 opened for writing and
\* did not finish: empty, or a part of the source.
TruncatedFile == -1

\* An exception ends the run at a file of an allowed extension, and "Copied"
\* is not printed.  dst.exists() raises, or shutil.copy2 raises before the
\* destination is created: the output is as it was.  shutil.copy2 raises in
\* copyfile after it has opened the destination: the destination stays,
\* empty or partial.  shutil.copy2 raises in copystat, after copyfile: the
\* destination stays with the whole content.
CopyFails ==
  /\ pc = "copy"
  /\ LET entry == media_source.walk[k] IN
       /\ \E suffix \in AllowedSuffixes : EndsWith(entry.file, suffix)
       /\ \/ media_output' = media_output
          \/ /\ ShouldCopy(entry.file, media_output)
             /\ media_output' = [media_output EXCEPT
                                   !.files = Put(@, entry.file, TruncatedFile)]
          \/ /\ ShouldCopy(entry.file, media_output)
             /\ media_output' = [media_output EXCEPT
                                   !.files = Put(@, entry.file, entry.data)]
  /\ pc' = "failed"
  /\ UNCHANGED << inputs, docs, locals, written, copied, history >>

\* a file of another extension, or one whose name is in the output already
SkipFile ==
  /\ pc = "copy"
  /\ ~ShouldCopy(media_source.walk[k].file, media_output)
  /\ k' = k + 1
  /\ pc' = AfterFile
  /\ UNCHANGED << inputs, media_output, docs, posts, albums, profile_pic_path,
                  cover_photo_path, i, written, copied, history >>

\* print("Loading posts..."); posts = load_posts(); print(f"Found ...")
LoadPosts ==
  /\ pc = "load_posts"
  /\ posts' = load_posts(posts_file)
  /\ pc' = "load_albums"
  /\ UNCHANGED << inputs, media_output, docs, k, albums, profile_pic_path,
                  cover_photo_path, i, written, copied, history >>

\* An exception ends the run in the load of the posts.  A print of main
\* raises (the reader of the standard output has gone), before the load or
\* after it; or the print of the diagnostic in load_json's except clause
\* raises, which nothing catches, and load_posts does not return.
LoadPostsFails ==
  /\ pc = "load_posts"
  /\ posts' \in {posts, load_posts(posts_file)}
  /\ pc' = "failed"
  /\ UNCHANGED << inputs, media_output, docs, k, albums, profile_pic_path,
                  cover_photo_path, i, written, copied, history >>

\* print("Loading albums..."); albums = load_albums(); print(f"Found ...")
LoadAlbums ==
  /\ pc = "load_albums"
  /\ albums' = load_albums(album_dir)
  /\ pc' = "pick"
  /\ UNCHANGED << inputs, media_output, docs, k, posts, profile_pic_path,
                  cover_photo_path, i, written, copied, history >>

\* An exception ends the run in the load of the albums.  A print of main
\* raises, before the load or after it; or album_dir.exists(), which is in no
\* try, raises (the directory cannot be searched); or the print of the
\* diagnostic in load_json's except clause raises (the standard output is
\* gone, or cannot encode the name of the file), and load_albums does not
\* return.
LoadAlbumsFails ==
  /\ pc = "load_albums"
  /\ albums' \in {albums, load_albums(album_dir)}
  /\ pc' = "failed"
  /\ UNCHANGED << inputs, media_output, docs, k, posts, profile_pic_path,
                  cover_photo_path, i, written, copied, history >>

\* the two loops that look for the profile picture and the cover photo
PickPaths ==
  /\ pc = "pick"
  /\ profile_pic_path' = PickPath(albums, ProfileWord, DefaultProfilePic)
  /\ cover_photo_path' = PickPath(albums, CoverWord, DefaultCoverPhoto)
  /\ pc' = "index"
  /\ UNCHANGED << inputs, media_output, docs, k, posts, albums, i, written,
                  copied, history >>

\* A slip of Write: the exception of a failed write is swallowed.
WriteSwallowed(name, page, next) ==
  \/ /\ docs' = Put(docs, name, page)
     /\ written' = Append(written, name)
     /\ pc' = next
  \/ /\ docs' = docs
     /\ written' = written
     /\ pc' = next
  \/ /\ docs' = Put(docs, name, TruncatedPage)
     /\ written' = written
     /\ pc' = next
  \/ /\ docs' = Put(docs, name, page)
     /\ written' = written
     /\ pc' = next

\* with open(name, 'w') as f: f.write(page).  The page is written, or open
\* raises, or write raises after open has truncated the file, or closing the
\* file raises after the whole page has reached it; an exception ends the run.
Write(name, page, next) ==
  \/ /\ docs' = Put(docs, name, page)
     /\ written' = Append(written, name)
     /\ pc' = next
  \/ /\ docs' = docs
     /\ written' = written
     /\ pc' = "failed"
  \/ /\ docs' = Put(docs, name, TruncatedPage)
     /\ written' = written
     /\ pc' = "failed"
  \/ /\ docs' = Put(docs, name, page)
     /\ written' = written
     /\ pc' = "failed"

WriteIndex ==
  /\ pc = "index"
  /\ Write(IndexName,
           generate_index_page(posts, profile_pic_path, cover_photo_path),
           "photos")
  /\ UNCHANGED << inputs, media_output, locals, copied, history >>

WritePhotos ==
  /\ pc = "photos"
  /\ Write(PhotosName, generate_photos_page(albums, profile_pic_path),
           IF albums = << >> THEN "about" ELSE "album")
  /\ UNCHANGED << inputs, media_output, locals, copied, history >>

\* for i, album in enumerate(albums)
WriteAlbum ==
  /\ pc = "album"
  /\ Write(AlbumPageName(i),
           generate_album_page(albums[i + 1], i, profile_pic_path),
           IF i + 1 < Len(albums) THEN "album" ELSE "about")
  /\ i' = IF pc' = "failed" THEN i ELSE i + 1
  /\ UNCHANGED << inputs, media_output, k, posts, albums, profile_pic_path,
                  cover_photo_path, copied, history >>

WriteAbout ==
  /\ pc = "about"
  /\ Write(AboutName, generate_about_page(profile_pic_path), "done")
  /\ UNCHANGED << inputs, media_output, locals, copied, history >>

\* main is run again, after a run that completed or one that an exception
\* ended: the output directory is as that run left it.
Rerun ==
  /\ pc \in {"done", "failed"}
  /\ runs < MaxRuns
  /\ runs' = runs + 1
  /\ pc' = "start"
  /\ k' = 0
  /\ posts' = << >>
  /\ albums' = << >>
  /\ profile_pic_path' = None
  /\ cover_photo_path' = None
  /\ i' = 0
  /\ written' = << >>
  /\ copied' = << >>
  /\ prev_docs' = docs
  /\ prev_media' = media_output.files
  /\ same_input' = ~input_changed
  /\ input_changed' = FALSE
  /\ prev_done' = (pc = "done")
  /\ UNCHANGED << inputs, media_output, docs >>

\* The exports of the specification of repeated runs.
RunPostsFiles == {FileMissing, FileUnparseable, TwoPosts}
RunAlbumDirs ==
  { AlbumDirMissing,
    AlbumDir(AlbumName2 :> JsonFile([name |-> ProfilePictures,
                                     photos |-> << [uri |-> UriP1] >>])),
    AlbumDir((AlbumName10 :> JsonFile([name |-> CoverPhotos,
                                       photos |-> << [uri |-> UriC1] >>]))
             @@ (AlbumName2 :> FileUnparseable)
             @@ (AlbumName2a :> JsonFile([photos |-> << [uri |-> UriT1] >>]))
             @@ (NotesName :> FileUnparseable)) }
RunMediaSources == {MediaSourceMissing, TwoDirsWalk}

\* The export is changed between two runs.
ChangeInput ==
  /\ pc = "done"
  /\ runs < MaxRuns
  /\ ~input_changed
  /\ posts_file' \in RunPostsFiles
  /\ album_dir' \in RunAlbumDirs
  /\ media_source' \in RunMediaSources
  /\ inputs' # inputs
  /\ input_changed' = TRUE
  /\ UNCHANGED << media_output, docs, pc, locals, written, copied, runs,
                  prev_docs, prev_media, same_input, prev_done >>

Run ==
  \/ BeginCopy \/ BeginCopyFails \/ CopyFile \/ CopyFails \/ SkipFile
  \/ LoadPosts \/ LoadPostsFails \/ LoadAlbums \/ LoadAlbumsFails
  \/ PickPaths
  \/ WriteIndex \/ WritePhotos \/ WriteAlbum \/ WriteAbout

Next == Run \/ Rerun \/ ChangeInput

\* Runs of main, one after the other, on an export that may change.
Init ==
  /\ posts_file \in RunPostsFiles
  /\ album_dir \in RunAlbumDirs
  /\ media_source \in RunMediaSources
  /\ media_output = NoMediaOutput
  /\ InitRun

Spec == Init /\ [][Next]_vars

\* One run of main on every posts file.
InitPosts ==
  /\ posts_file \in PostsFiles
  /\ album_dir \in {AlbumDirMissing,
                    AlbumDir(AlbumName2 :> JsonFile([photos |-> << [uri |-> UriT1] >>]))}
  /\ media_source = TwoDirsWalk
  /\ media_output = NoMediaOutput
  /\ InitRun

SpecPosts == InitPosts /\ [][Run]_vars

\* One run of main on every album directory.
InitAlbums ==
  /\ posts_file = TwoPosts
  /\ album_dir \in AlbumDirs
  /\ media_source = TwoDirsWalk
  /\ media_output = NoMediaOutput
  /\ InitRun

SpecAlbums == InitAlbums /\ [][Run]_vars

\* One run of main on every media directory.
InitMedia ==
  /\ posts_file = TwoPosts
  /\ album_dir = AlbumDir(AlbumName2 :> JsonFile([photos |-> << [uri |-> UriT1] >>]))
  /\ media_source \in MediaSources
  /\ media_output \in {NoMediaOutput, OldMediaOutput}
  /\ InitRun

SpecMedia == InitMedia /\ [][Run]_vars

\* ------------------------------------------------------------------------
\* Properties
\* ------------------------------------------------------------------------

PostsLoaded ==
  pc \in {"load_albums", "pick", "index", "photos", "album", "about", "done"}
AlbumsLoaded == pc \in {"pick", "index", "photos", "album", "about", "done"}
PathsPicked == pc \in {"index", "photos", "album", "about", "done"}

\* The items of the posts file, none when it is missing or does not parse.
PostItems == IF posts_file.state = "json" THEN posts_file.json ELSE << >>

Orders(n) ==
  {f \in [1..n -> 1..n] : \A a, b \in 1..n : a # b => f[a] # f[b]}

Written(name) == \E n \in DOMAIN written : written[n] = name

\* The posts are the items of the file, one post for each, with the item's
\* timestamp or 0 for an item without one.
PostsAreTheItems ==
  /\ Len(posts) = Len(PostItems)
  /\ \E f \in Orders(Len(posts)) :
       \A n \in DOMAIN posts : posts[f[n]].timestamp = Get(PostItems[n], "timestamp", 0)

NewestFirst ==
  \A a, b \in DOMAIN posts : a < b => posts[a].timestamp >= posts[b].timestamp

\* The feed page shows the posts in the order of the sequence.
FeedInOrder ==
  Written(IndexName) =>
    /\ Len(docs[IndexName].posts) = Len(posts)
    /\ \A n \in DOMAIN posts :
         docs[IndexName].posts[n].date = format_timestamp(posts[n].timestamp)

\* C1 as stated: the posts that load_posts returns, and the feed page shows,
\* are in non-increasing order of timestamp, and every post with a zero or
\* absent timestamp comes after every post with a non-zero timestamp.
C1_ZeroAfterEveryNonZero ==
  PostsLoaded =>
    /\ PostsAreTheItems
    /\ NewestFirst
    /\ FeedInOrder
    /\ \A a, b \in DOMAIN posts :
         posts[a].timestamp = 0 /\ posts[b].timestamp # 0 => b < a

\* C1, amended: the posts that load_posts returns, and the feed page shows,
\* are in non-increasing order of timestamp, and every post with a zero or
\* absent timestamp comes after every post with a positive timestamp (and
\* before every post with a negative one).
C1_ZeroAfterEveryPositive ==
  PostsLoaded =>
    /\ PostsAreTheItems
    /\ NewestFirst
    /\ FeedInOrder
    /\ \A a, b \in DOMAIN posts :
         /\ (posts[a].timestamp = 0 /\ posts[b].timestamp > 0 => b < a)
         /\ (posts[a].timestamp = 0 /\ posts[b].timestamp < 0 => a < b)

\* A file that lists a post without timestamp before a post with a positive
\* one has been loaded and the feed page written.
C1_Witness ==
  /\ PostsLoaded
  /\ Written(IndexName)
  /\ Len(PostItems) = 3
  /\ "timestamp" \notin DOMAIN PostItems[1]
  /\ Get(PostItems[2], "timestamp", 0) > 0
  /\ posts[1].timestamp > 0
  /\ posts[3].timestamp = 0

\* The entries of the attachments of an item, in the order of the file.
RECURSIVE AttachmentEntries(_)
AttachmentEntries(attachments) ==
  IF attachments = << >> THEN << >>
  ELSE Get(Head(attachments), "data", << >>) \o AttachmentEntries(Tail(attachments))

ItemEntries(item) == AttachmentEntries(Get(item, "attachments", << >>))

\* The uris of the media entries of an item, in the order of the file.
ItemMediaUris(item) ==
  LET entries == SelectSeq(ItemEntries(item), LAMBDA d : "media" \in DOMAIN d)
  IN [n \in DOMAIN entries |-> Get(entries[n].media, "uri", None)]

\* The urls of the external_context entries of an item, in the order of
\* the file.
ItemUrls(item) ==
  LET entries == SelectSeq(ItemEntries(item),
                           LAMBDA d : "external_context" \in DOMAIN d)
  IN [n \in DOMAIN entries |-> Get(entries[n].external_context, "url", None)]

FirstOr(urls, default) == IF urls = << >> THEN default ELSE urls[1]
LastOr(urls, default) == IF urls = << >> THEN default ELSE urls[Len(urls)]

PostUris(post) == [n \in DOMAIN post.media |-> post.media[n].uri]

\* C8 as stated: a post holds all the media references of the attachment
\* entries of its item in source order, and its external link is the url of
\* the first external_context entry of the scan.
C8_FirstExternalContext ==
  PostsLoaded =>
    /\ Len(posts) = Len(PostItems)
    /\ \E f \in Orders(Len(posts)) :
         \A n \in DOMAIN posts :
           /\ posts[f[n]].timestamp = Get(PostItems[n], "timestamp", 0)
           /\ PostUris(posts[f[n]]) = ItemMediaUris(PostItems[n])
           /\ posts[f[n]].external_url = FirstOr(ItemUrls(PostItems[n]), None)

\* C8, amended: a post holds all the media references of the attachment
\* entries of its item in source order, and its external link is the url of
\* the last external_context entry of the scan: a later entry overrides an
\* earlier one.
C8_LastExternalContext ==
  PostsLoaded =>
    /\ Len(posts) = Len(PostItems)
    /\ \E f \in Orders(Len(posts)) :
         \A n \in DOMAIN posts :
           /\ posts[f[n]].timestamp = Get(PostItems[n], "timestamp", 0)
           /\ PostUris(posts[f[n]]) = ItemMediaUris(PostItems[n])
           /\ posts[f[n]].external_url = LastOr(ItemUrls(PostItems[n]), None)

\* A post has been loaded from an item with two media references and two
\* external_context entries of different urls.
C8_Witness ==
  /\ PostsLoaded
  /\ \E n \in DOMAIN PostItems :
       /\ Len(ItemMediaUris(PostItems[n])) = 2
       /\ ItemUrls(PostItems[n]) = << Url1, Url2 >>
  /\ \E n \in DOMAIN posts :
       PostUris(posts[n]) = << Uri1, Uri2 >> /\ posts[n].external_url = Url2

\* The album files that give an album: the .json files of the directory
\* that parse to an object with a non-empty photos array.
ValidAlbumNames ==
  IF ~album_dir.exists THEN {}
  ELSE {n \in DOMAIN album_dir.files :
          /\ EndsWith(n, JsonSuffix)
          /\ album_dir.files[n].state = "json"
          /\ Get(album_dir.files[n].json, "photos", << >>) # << >>}

\* The same files in increasing order of name.
KeptFiles ==
  CHOOSE order \in [1..Cardinality(ValidAlbumNames) -> ValidAlbumNames] :
    /\ \A n \in ValidAlbumNames : \E a \in DOMAIN order : order[a] = n
    /\ \A a, b \in DOMAIN order : a < b => TextLess(order[a], order[b])

AlbumJson(n) == album_dir.files[KeptFiles[n]].json

\* C2: no album with an empty photo list is in the sequence load_albums
\* returns, so photos.html has no card, and the output no album page, for an
\* album with zero photos.
C2_NoEmptyAlbum ==
  /\ \A n \in DOMAIN albums : albums[n].photos # << >>
  /\ Written(PhotosName) =>
       \A n \in DOMAIN docs[PhotosName].cards : docs[PhotosName].cards[n].count > 0
  /\ \A name \in DOMAIN docs : docs[name].kind = "album" => docs[name].count > 0

\* A directory with an album file whose photos array is empty, next to two
\* album files with photos, has been loaded and the pages written.
C2_Witness ==
  /\ pc = "done"
  /\ Len(albums) = 2
  /\ \E n \in DOMAIN album_dir.files :
       /\ album_dir.files[n].state = "json"
       /\ "photos" \in DOMAIN album_dir.files[n].json
       /\ album_dir.files[n].json.photos = << >>

\* C6: a run that completes with N albums has written album-i.html for
\* exactly the i in 0..N-1, each from the i-th album, and the i-th card of
\* photos.html links to album-i.html, the page of the same album.
C6_AlbumPagesMatchCards ==
  pc = "done" =>
    /\ \A n \in DOMAIN written :
         written[n] \in {IndexName, PhotosName, AboutName}
           \/ \E a \in 0..(Len(albums) - 1) : written[n] = AlbumPageName(a)
    /\ Len(docs[PhotosName].cards) = Len(albums)
    /\ \A a \in 0..(Len(albums) - 1) :
         /\ Written(AlbumPageName(a))
         /\ docs[AlbumPageName(a)] =
              generate_album_page(albums[a + 1], a, profile_pic_path)
         /\ docs[PhotosName].cards[a + 1].href = AlbumPageName(a)
         /\ docs[PhotosName].cards[a + 1].name = docs[AlbumPageName(a)].name
         /\ docs[PhotosName].cards[a + 1].count = docs[AlbumPageName(a)].count

\* A run has completed with three albums of different names.
C6_Witness ==
  /\ pc = "done"
  /\ Len(albums) = 3
  /\ \A a, b \in DOMAIN albums : a # b => albums[a].name # albums[b].name

\* C7: the cover of an album whose file has no cover_photo and a non-empty
\* photos array is the uri of the first photo of the array.
C7_CoverIsFirstPhoto ==
  AlbumsLoaded =>
    /\ Len(albums) = Len(KeptFiles)
    /\ \A n \in DOMAIN albums :
         "cover_photo" \notin DOMAIN AlbumJson(n) =>
           albums[n].cover = Get(AlbumJson(n).photos[1], "uri", None)

\* An album has been loaded from a file with no cover_photo and two photos
\* of different uris.
C7_Witness ==
  /\ AlbumsLoaded
  /\ \E n \in DOMAIN albums :
       /\ "cover_photo" \notin DOMAIN AlbumJson(n)
       /\ Len(AlbumJson(n).photos) = 2
       /\ AlbumJson(n).photos[1].uri = UriP1
       /\ AlbumJson(n).photos[2].uri = UriP2
       /\ albums[n].cover = UriP1

\* word, in lower case, is in name when case is ignored.
HasWord(name, word) ==
  \E at \in 0..(Len(name) - Len(word)) :
    \A n \in 1..Len(word) : LowerChar(name[at + n]) = word[n]

Matching(word) == {n \in DOMAIN albums : HasWord(albums[n].name, word)}

\* The path of the first photo of the first album whose name has word.
FirstMatchPath(word, default) ==
  IF Matching(word) = {} THEN default
  ELSE LET first == CHOOSE n \in Matching(word) : \A m \in Matching(word) : n <= m
       IN get_media_path(albums[first].photos[1].uri)

\* C10: the profile picture is the resolved path of the first photo of the
\* first album whose name contains "profile", case ignored, the default when
\* there is none; the cover photo likewise with "cover", independently; a
\* later matching album never overrides an earlier one.
C10_FirstMatchingAlbum ==
  PathsPicked =>
    /\ profile_pic_path = FirstMatchPath(ProfileWord, DefaultProfilePic)
    /\ cover_photo_path = FirstMatchPath(CoverWord, DefaultCoverPhoto)

\* Two albums match each word, the first match of "cover" comes before the
\* first match of "profile", and the later match of each names another
\* photo.
C10_Witness ==
  /\ PathsPicked
  /\ Len(albums) = 3
  /\ Matching(CoverWord) = {1, 3}
  /\ Matching(ProfileWord) = {2, 3}
  /\ profile_pic_path = get_media_path(UriP1)
  /\ cover_photo_path = get_media_path(UriC1)
  /\ albums[3].photos[1].uri = None

CopyDone ==
  pc \in {"load_posts", "load_albums", "pick", "index", "photos", "album",
          "about", "done"}

Walk == media_source.walk

HasAllowedSuffix(file) == \E suffix \in AllowedSuffixes : EndsWith(file, suffix)

\* The places of the walk where a file of this name is visited.
Visits(file) == {n \in DOMAIN Walk : Walk[n].file = file}

\* The files of an allowed extension that lie, under one name, in two
\* directories of the source.
Collisions ==
  {Walk[n].file : n \in {m \in DOMAIN Walk :
     /\ HasAllowedSuffix(Walk[m].file)
     /\ \E l \in DOMAIN Walk : Walk[l].file = Walk[m].file /\ Walk[l].root # Walk[m].root}}

FirstVisit(file) == CHOOSE n \in Visits(file) : \A m \in Visits(file) : n <= m
LastVisit(file) == CHOOSE n \in Visits(file) : \A m \in Visits(file) : n >= m

\* C5 as stated: after copy_media_files, the output file of a name that two
\* source directories share holds the content of the file visited last.
C5_LastWriterWins ==
  CopyDone =>
    \A file \in Collisions :
      /\ file \in DOMAIN media_output.files
      /\ media_output.files[file] = Walk[LastVisit(file)].data

\* C5, amended: after copy_media_files, the output file of a name that two
\* source directories share holds the content of the file visited first, or
\* the content it had before the run when the output held the name already.
C5_FirstWriterWins ==
  CopyDone =>
    \A file \in Collisions :
      /\ file \in DOMAIN media_output.files
      /\ media_output.files[file] =
           IF file \in DOMAIN prev_media THEN prev_media[file]
           ELSE Walk[FirstVisit(file)].data

\* The walk has visited a name in three directories, of three contents, and
\* the output held no file of the name before.
C5_Witness ==
  /\ CopyDone
  /\ prev_media = << >>
  /\ Cardinality(Visits(File1Jpg)) = 3
  /\ Walk[FirstVisit(File1Jpg)].data # Walk[LastVisit(File1Jpg)].data
  /\ media_output.files[File1Jpg] = Walk[FirstVisit(File1Jpg)].data

\* C3: a run on unchanged input after a run that completed leaves every
\* document as that run left it, copies no media file and leaves the media as
\* they were.
C3_SecondRunChangesNothing ==
  pc = "done" /\ runs >= 2 /\ prev_done /\ same_input =>
    /\ docs = prev_docs
    /\ copied = << >>
    /\ media_output.files = prev_media

\* A second run has completed on an unchanged export with posts, albums and
\* media files.
C3_Witness ==
  /\ pc = "done"
  /\ runs = 2
  /\ prev_done
  /\ same_input
  /\ posts # << >>
  /\ Len(albums) = 2
  /\ media_source = TwoDirsWalk
  /\ Len(written) = 5
  /\ File1Jpg \in DOMAIN media_output.files

\* The page main writes under a name.
PageOf(name) ==
  IF name = IndexName
    THEN generate_index_page(posts, profile_pic_path, cover_photo_path)
  ELSE IF name = PhotosName THEN generate_photos_page(albums, profile_pic_path)
  ELSE IF name = AboutName THEN generate_about_page(profile_pic_path)
  ELSE LET a == CHOOSE n \in 0..(Len(albums) - 1) : AlbumPageName(n) = name
       IN generate_album_page(albums[a + 1], a, profile_pic_path)

\* The export is the one the run has read: it was not changed after the run.
C4_Loaded ==
  /\ PostsLoaded /\ ~input_changed /\ posts_file.state # "json" => posts = << >>
  /\ AlbumsLoaded /\ ~input_changed /\ ~album_dir.exists => albums = << >>
  /\ AlbumsLoaded /\ ~input_changed =>
       /\ Len(albums) = Len(KeptFiles)
       /\ \A n \in DOMAIN albums : albums[n] = MakeAlbum(AlbumJson(n))
  /\ pc = "done" =>
       \A name \in {IndexName, PhotosName, AboutName} :
         Written(name) /\ docs[name] = PageOf(name)

\* The load of the posts, or of the albums, meets a load failure.
PostsLoadFailure == posts_file.state # "json"
AlbumsLoadFailure ==
  \/ ~album_dir.exists
  \/ \E name \in DOMAIN album_dir.files :
       EndsWith(name, JsonSuffix) /\ album_dir.files[name].state # "json"

C4_GoesOn ==
  /\ pc = "load_posts" /\ PostsLoadFailure => pc' = "load_albums"
  /\ pc = "load_albums" /\ AlbumsLoadFailure => pc' = "pick"
  /\ pc = "pick" => pc' = "index"

\* C4: a load failure never aborts the run. A posts file that is missing or
\* does not parse gives no posts, a missing album directory no albums, an
\* album file that does not parse is skipped and the other album files with
\* photos give the albums, in the order of their names; main goes on from
\* a load that met such a failure to the next step, and a run that completes
\* has written index.html, photos.html and about.html.
C4_LoadFailureNeverAborts == [] C4_Loaded /\ [][C4_GoesOn]_vars

\* The documents of a run, in the order main writes them.
WriteOrder ==
  << IndexName, PhotosName >>
    \o [n \in 1..Len(albums) |-> AlbumPageName(n - 1)]
    \o << AboutName >>

Untouched(name) ==
  /\ name \in DOMAIN docs <=> name \in DOMAIN prev_docs
  /\ name \in DOMAIN docs => docs[name] = prev_docs[name]

\* C9: main writes index.html, photos.html, album-0.html .. album-(N-1).html
\* and about.html in this order, after the copying and both loads; when a
\* write fails the run ends: the documents written before it are on disk,
\* the document of the failed write is as it was before the run, truncated
\* or whole, and no later document is written.
C9_WriteOrderAndFailure ==
  /\ pc \in {"start", "copy", "load_posts", "load_albums", "pick"} => written = << >>
  /\ Len(written) <= Len(WriteOrder)
  /\ \A n \in DOMAIN written :
       /\ written[n] = WriteOrder[n]
       /\ docs[written[n]] = PageOf(written[n])
  /\ pc = "done" => written = WriteOrder
  /\ pc = "failed" =>
       /\ Len(written) < Len(WriteOrder)
       /\ \A n \in DOMAIN WriteOrder :
            /\ n = Len(written) + 1 =>
                 \/ Untouched(WriteOrder[n])
                 \/ /\ WriteOrder[n] \in DOMAIN docs
                    /\ docs[WriteOrder[n]] \in {TruncatedPage, PageOf(WriteOrder[n])}
            /\ n > Len(written) + 1 => Untouched(WriteOrder[n])

\* The write of album-1.html has failed part-way in a run with two albums:
\* index.html, photos.html and album-0.html are written, about.html is not.
C9_Witness ==
  /\ pc = "failed"
  /\ Len(albums) = 2
  /\ written = << IndexName, PhotosName, AlbumPageName(0) >>
  /\ AlbumPageName(1) \in DOMAIN docs
  /\ docs[AlbumPageName(1)] = TruncatedPage
  /\ AboutName \notin DOMAIN docs
  /\ runs = 1

\* path is "media/" and a file name: it is not None and nothing but
\* the prefix holds a slash.
IsMediaPath(path) ==
  /\ path # None
  /\ Len(path) > Len(MediaPrefix)
  /\ SubSeq(path, 1, Len(MediaPrefix)) = MediaPrefix
  /\ \A n \in (Len(MediaPrefix) + 1)..Len(path) : path[n] # Slash

\* C11: for every set of loaded albums, also when the first photo of an
\* album has no uri, the profile picture and the cover photo that main
\* hands to the templates are never absent: each is a path media/<filename>.
C11_PathsNeverAbsent ==
  PathsPicked => IsMediaPath(profile_pic_path) /\ IsMediaPath(cover_photo_path)

\* name is a document that is none of the documents of a run with the
\* albums of this run: an album-k.html with k at or above their number.
IsStalePage(name) ==
  /\ name \notin {IndexName, PhotosName, AboutName}
  /\ \A a \in 0..(Len(albums) - 1) : name # AlbumPageName(a)

\* C12 as stated: after any sequence of completed runs on an export that
\* changes between the runs, the output holds no album-k.html with k at or
\* above the number of albums of the most recent run.
C12_NoStaleAlbumPage ==
  pc = "done" => \A name \in DOMAIN docs : ~IsStalePage(name)

\* C12, amended: a completed run neither writes nor removes an album-k.html
\* with k at or above the number of its albums. Such a page is in the output
\* after the run exactly when it was there before the run, unchanged, so a
\* detail page of an earlier run survives a run that loads fewer albums;
\* photos.html links to none of them.
C12_StalePagesSurvive ==
  pc = "done" =>
    /\ \A name \in DOMAIN docs \cup DOMAIN prev_docs :
         IsStalePage(name) => Untouched(name) /\ ~Written(name)
    /\ \A n \in DOMAIN docs[PhotosName].cards :
         ~IsStalePage(docs[PhotosName].cards[n].href)

\* The second run has completed with one album after a first run with two:
\* album-1.html of the first run is still in the output.
C12_Witness ==
  /\ pc = "done"
  /\ runs = 2
  /\ ~same_input
  /\ Len(albums) = 1
  /\ Written(AlbumPageName(0))
  /\ AlbumPageName(1) \in DOMAIN docs
  /\ AlbumPageName(1) \in DOMAIN prev_docs
  /\ docs[AlbumPageName(1)] = prev_docs[AlbumPageName(1)]
  /\ docs[AlbumPageName(1)].kind = "album"

====
